---- MODULE Spec2Model ----
(***************************************************************************)
(* Model of the real-estate deal analyser: the class                       *)
(* RealEstateDealAnalyser and the two versions of the function             *)
(* realEstateAnalyzer / calculateAnalysis.                                 *)
(*                                                                         *)
(* A JavaScript number is modelled as an exact rational [n, d] in lowest   *)
(* terms with d > 0, extended with the three IEEE-754 specials:            *)
(*   d = 0, n = 1   +Infinity                                              *)
(*   d = 0, n = -1  -Infinity                                              *)
(*   d = 0, n = 0   NaN                                                    *)
(* Rounding of finite results is not modelled (the arithmetic is exact),   *)
(* except for the absorption of "- 1000" at large magnitudes, which is     *)
(* what makes a price that only ever decreases reach a fixed point.  The   *)
(* sign of zero is not modelled.                                           *)
(***************************************************************************)
EXTENDS Integers, Sequences

----------------------------------------------------------------------------
(* JavaScript numbers *)

Abs(i) == IF i < 0 THEN -i ELSE i

RECURSIVE GCD(_, _)
GCD(a, b) == IF b = 0 THEN a ELSE GCD(b, a % b)

\* the number n/d, d # 0, in lowest terms
Rat(n, d) ==
  LET s == IF d < 0 THEN -1 ELSE 1
      g == GCD(Abs(n), Abs(d))
  IN  [n |-> (s * n) \div g, d |-> (s * d) \div g]

Num(i) == [n |-> i, d |-> 1]

NaN == [n |-> 0, d |-> 0]

\* s = 1: +Infinity, s = -1: -Infinity, s = 0: NaN
Inf(s) == [n |-> s, d |-> 0]

IsNaN(x) == x.d = 0 /\ x.n = 0

IsFinite(x) == x.d # 0

Sgn(x) == IF x.n > 0 THEN 1 ELSE IF x.n < 0 THEN -1 ELSE 0

\* x * y
Mul(x, y) ==
  IF IsNaN(x) \/ IsNaN(y) THEN NaN
  ELSE IF ~IsFinite(x) \/ ~IsFinite(y) THEN Inf(Sgn(x) * Sgn(y))
  ELSE LET g1 == GCD(Abs(x.n), y.d)
           g2 == GCD(Abs(y.n), x.d)
       IN  [n |-> (x.n \div g1) * (y.n \div g2),
            d |-> (x.d \div g2) * (y.d \div g1)]

\* x / y: a finite x over zero is an infinity of x's sign, 0 / 0 is NaN
Div(x, y) ==
  IF IsNaN(x) \/ IsNaN(y) THEN NaN
  ELSE IF ~IsFinite(y) THEN (IF IsFinite(x) THEN Num(0) ELSE NaN)
  ELSE IF y.n = 0 THEN Inf(Sgn(x))
  ELSE Mul(x, [n |-> Sgn(y) * y.d, d |-> Abs(y.n)])

\* x + y
Add(x, y) ==
  IF IsNaN(x) \/ IsNaN(y) THEN NaN
  ELSE IF ~IsFinite(x) THEN (IF ~IsFinite(y) /\ y.n # x.n THEN NaN ELSE x)
  ELSE IF ~IsFinite(y) THEN y
  ELSE LET g == GCD(x.d, y.d)
       IN  Rat(x.n * (y.d \div g) + y.n * (x.d \div g), (x.d \div g) * y.d)

Neg(x) == [n |-> -x.n, d |-> x.d]

\* x - y
Sub(x, y) == Add(x, Neg(y))

\* x < y: false when either side is NaN
Lt(x, y) == ~IsNaN(x) /\ ~IsNaN(y) /\ Sgn(Sub(x, y)) < 0

\* x >= y: false when either side is NaN
Geq(x, y) == ~IsNaN(x) /\ ~IsNaN(y) /\ ~Lt(x, y)

\* x ** k for a natural k and a finite x: a fraction in lowest terms stays so
PowNat(x, k) == [n |-> x.n ^ k, d |-> x.d ^ k]

\* x ** e for an integer-valued e
Pow(x, e) == IF e.n >= 0 THEN PowNat(x, e.n) ELSE Div(Num(1), PowNat(x, -e.n))

\* a decimal literal written as a fraction, e.g. 0.015 = Dec(15, 1000)
Dec(n, d) == Rat(n, d)

----------------------------------------------------------------------------
(* class RealEstateDealAnalyser: what each method computes from the fields. *)
(* A method that returns { value, markdown } is modelled by the object it    *)
(* hands to objToMarkdown, whose last entry is the value; the object is      *)
(* built by an operator of its own, from the constants the method computes   *)
(* first.                                                                    *)

\* this.purchasePrice * (1 - this.downpaymentPercentage / 100)
getLoanAmount(self) ==
  Mul(self.purchasePrice, Sub(Num(1), Div(self.downpaymentPercentage, Num(100))))

\* loan * r / (1 - (1 + r) ** -n)
amortizedPayment(loan, r, n) ==
  Div(Mul(loan, r), Sub(Num(1), Pow(Add(Num(1), r), Neg(n))))

\* the payment with a mortgage-insurance surcharge of purchasePrice * 0.015 / 12
\* below a down payment of 20 %
getMonthlyMortgagePayment_withPMI(self) ==
  Add(IF Lt(self.downpaymentPercentage, Num(20))
        THEN Div(Mul(self.purchasePrice, Dec(15, 1000)), Num(12))
        ELSE Num(0),
      amortizedPayment(getLoanAmount(self),
                       Div(self.annualMortgageInterestRate, Num(12)),
                       Mul(self.mortgageAmortization, Num(12))))

getMonthlyMortgagePayment(self) ==
  amortizedPayment(getLoanAmount(self),
                   Div(self.annualMortgageInterestRate, Num(12)),
                   Mul(self.mortgageAmortization, Num(12)))

getDownPayment(self) ==
  Mul(self.purchasePrice, Div(self.downpaymentPercentage, Num(100)))

\* Object.values(annualExpenses), in the order of the object literal
annualExpensesValues(self) ==
  << Mul(getMonthlyMortgagePayment(self), Num(12)),
     Mul(self.monthlyHoaDues, Num(12)),
     Mul(self.purchasePrice, Dec(1, 100)),
     Mul(self.purchasePrice, Dec(15, 1000)),
     Num(1750),
     Mul(Div(self.monthlyRent, Num(4)), self.expectedVacancyWeeks) >>

RECURSIVE reduceSum(_, _, _, _)
\* values.reduce((acc, v) => acc + v, acc) over the entries i, ..., j - 1 in
\* this order: the entries below the middle, then those from the middle on
\* (the test half = half has the first half evaluated before the second starts)
reduceSum(values, i, j, acc) ==
  IF ~(i < j) THEN acc
  ELSE IF j = i + 1 THEN Add(acc, values[i])
  ELSE LET half == reduceSum(values, i, (i + j) \div 2, acc)
       IN  IF half = half THEN reduceSum(values, (i + j) \div 2, j, half) ELSE half

\* { ...annualExpenses, totalAnnualExpenses }
annualExpensesObject(values) ==
  [annualMortgagePayment |-> values[1],
   annualHoaDues |-> values[2],
   annualCapEx |-> values[3],
   annualPropertyTax |-> values[4],
   annualPropertyInsurance |-> values[5],
   annualVacancyCosts |-> values[6],
   totalAnnualExpenses |-> reduceSum(values, 1, Len(values) + 1, Num(0))]

getAnnualExpenses(self) == annualExpensesObject(annualExpensesValues(self))

\* { annualRent, annualExpenses, totalAnnualCashflow }
annualCashflowObject(annualRent, annualExpenses) ==
  [annualRent |-> annualRent,
   annualExpenses |-> annualExpenses,
   totalAnnualCashflow |-> Sub(annualRent, annualExpenses)]

getAnnualCashflow(self) ==
  annualCashflowObject(Mul(self.monthlyRent, Num(12)),
                       getAnnualExpenses(self).totalAnnualExpenses)

\* annualPrincipalReduction += principalPayment;
\* remainingLoanBalance -= principalPayment
payPrincipal(st, principalPayment) ==
  [annualPrincipalReduction |-> Add(st.annualPrincipalReduction, principalPayment),
   remainingLoanBalance |-> Sub(st.remainingLoanBalance, principalPayment)]

\* one iteration of the for loop of getAnnualReturn on the loop's variables
PrincipalStep(self, st) ==
  payPrincipal(st,
    Sub(getMonthlyMortgagePayment(self),
        Mul(st.remainingLoanBalance, Div(self.annualMortgageInterestRate, Num(12)))))

RECURSIVE principalLoop(_, _, _, _)
\* the variables of the for loop after the iterations i, ..., j - 1, from st:
\* the iterations below the middle, then those from the middle on
principalLoop(self, i, j, st) ==
  IF ~(i < j) THEN st
  ELSE IF j = i + 1 THEN PrincipalStep(self, st)
  ELSE LET half == principalLoop(self, i, (i + j) \div 2, st)
       IN  IF half = half THEN principalLoop(self, (i + j) \div 2, j, half) ELSE half

\* for (let i = 0, remainingLoanBalance = this.getLoanAmount(), ...; i < 12; i += 1)
annualPrincipalReductionOf(self) ==
  principalLoop(self, 0, 12,
                [annualPrincipalReduction |-> Num(0),
                 remainingLoanBalance |-> getLoanAmount(self)]).annualPrincipalReduction

\* { annualCashflow, annualPrincipalReduction, annualAppreciation, totalAnnualReturn }
annualReturnObject(annualCashflow, annualPrincipalReduction, annualAppreciation) ==
  [annualCashflow |-> annualCashflow,
   annualPrincipalReduction |-> annualPrincipalReduction,
   annualAppreciation |-> annualAppreciation,
   totalAnnualReturn |->
     Add(Add(annualCashflow, annualPrincipalReduction), annualAppreciation)]

getAnnualReturn(self) ==
  annualReturnObject(getAnnualCashflow(self).totalAnnualCashflow,
                     annualPrincipalReductionOf(self),
                     Mul(self.purchasePrice, Dec(48, 1000)))

\* { annualReturn, downPayment, closingCosts, totalAnnualROI }
annualROIObject(annualReturn, downPayment, closingCosts) ==
  [annualReturn |-> annualReturn,
   downPayment |-> downPayment,
   closingCosts |-> closingCosts,
   totalAnnualROI |->
     Mul(Div(annualReturn, Add(downPayment, closingCosts)), Num(100))]

getAnnualROI(self) ==
  annualROIObject(getAnnualReturn(self).totalAnnualReturn,
                  getDownPayment(self),
                  Mul(self.purchasePrice, Dec(2, 100)))

----------------------------------------------------------------------------
(* realEstateAnalyzer / calculateAnalysis.  The constants of calculateAnalysis *)
(* are the entries of a record of locals, NaN while undefined; each operator   *)
(* below is a group of its statements, setting the locals they define from     *)
(* those defined before.                                                       *)

NoLocals ==
  [loanAmount |-> NaN, monthlyInterestRate |-> NaN, n |-> NaN,
   monthlyMortgagePayment |-> NaN, principalReduction |-> NaN,
   annualHoaDues |-> NaN, annualCapEx |-> NaN, annualPropertyTax |-> NaN,
   annualPropertyInsurance |-> NaN, annualVacancyCosts |-> NaN,
   annualExpenses |-> NaN, annualRent |-> NaN, annualCashflow |-> NaN,
   appreciation |-> NaN, totalReturn |-> NaN, totalInvestment |-> NaN,
   ROI |-> NaN]

\* loanAmount, monthlyInterestRate, n
loanTerms(l, salePrice, a) ==
  [l EXCEPT !.loanAmount = Mul(salePrice, Sub(Num(1), a.downpaymentPercentage)),
            !.monthlyInterestRate = Div(Div(a.mortgageInterestRate, Num(12)), Num(100)),
            !.n = Mul(a.mortgageAmortization, Num(12))]

\* monthlyMortgagePayment
mortgagePayment(l) ==
  [l EXCEPT !.monthlyMortgagePayment =
              Div(Mul(l.loanAmount, l.monthlyInterestRate),
                  Sub(Num(1), Pow(Add(Num(1), l.monthlyInterestRate), Neg(l.n))))]

\* principalReduction: the principal part of one monthly payment
principalPart(l) ==
  [l EXCEPT !.principalReduction =
              Sub(l.monthlyMortgagePayment, Mul(l.loanAmount, l.monthlyInterestRate))]

\* the annual costs that do not depend on the mortgage, and the rent
annualCosts(l, salePrice, a) ==
  [l EXCEPT !.annualHoaDues = Mul(a.monthlyHoaDues, Num(12)),
            !.annualCapEx = Mul(salePrice, Dec(1, 100)),
            !.annualPropertyTax = Mul(a.monthlyPropertyTax, Num(12)),
            !.annualPropertyInsurance = Mul(a.monthlyPropertyInsurance, Num(12)),
            !.annualVacancyCosts = Mul(Div(a.monthlyRent, Num(4)), a.expectedVacancyWeeks),
            !.annualRent = Mul(a.monthlyRent, Num(12))]

\* src/realEstateDealAnalyser.ts: annualExpenses, with the vacancy costs
expenses(l) ==
  [l EXCEPT !.annualExpenses =
              Add(Add(Add(Add(Add(Mul(l.monthlyMortgagePayment, Num(12)),
                                  l.annualPropertyTax),
                              l.annualPropertyInsurance),
                          l.annualHoaDues),
                      l.annualCapEx),
                  l.annualVacancyCosts)]

\* src/unnamed/part_000: annualExpenses
expenses_part000(l) ==
  [l EXCEPT !.annualExpenses =
              Add(Add(Add(Add(Mul(l.monthlyMortgagePayment, Num(12)),
                              l.annualPropertyTax),
                          l.annualPropertyInsurance),
                      l.annualHoaDues),
                  l.annualCapEx)]

\* annualCashflow
cashflow(l) == [l EXCEPT !.annualCashflow = Sub(l.annualRent, l.annualExpenses)]

\* appreciation at the given rate, totalReturn, totalInvestment
totalReturnOf(l, salePrice, a, appreciationRate) ==
  [l EXCEPT !.appreciation = Mul(salePrice, appreciationRate),
            !.totalReturn = Add(Add(l.annualCashflow, l.principalReduction),
                                Mul(salePrice, appreciationRate)),
            !.totalInvestment = Mul(salePrice, a.downpaymentPercentage)]

\* ROI
roi(l) == [l EXCEPT !.ROI = Mul(Div(l.totalReturn, l.totalInvestment), Num(100))]

\* the object calculateAnalysis returns
analysisResult(l, purchasePrice) ==
  [loanAmount |-> l.loanAmount,
   monthlyMortgagePayment |-> l.monthlyMortgagePayment,
   annualPropertyTax |-> l.annualPropertyTax,
   annualPropertyInsurance |-> l.annualPropertyInsurance,
   annualHoaDues |-> l.annualHoaDues,
   annualCapEx |-> l.annualCapEx,
   annualRent |-> l.annualRent,
   annualExpenses |-> l.annualExpenses,
   annualCashflow |-> l.annualCashflow,
   appreciation |-> l.appreciation,
   totalReturn |-> l.totalReturn,
   ROI |-> l.ROI,
   purchasePrice |-> purchasePrice]

\* src/realEstateDealAnalyser.ts
calculateAnalysis(salePrice, a) ==
  analysisResult(
    roi(totalReturnOf(
          cashflow(expenses(annualCosts(
            principalPart(mortgagePayment(loanTerms(NoLocals, salePrice, a))),
            salePrice, a))),
          salePrice, a, Dec(48, 1000))),
    salePrice)

\* src/unnamed/part_000; the result has no purchasePrice (the field is
\* optional and set by the caller): NaN stands for undefined
calculateAnalysis_part000(salePrice, a) ==
  analysisResult(
    roi(totalReturnOf(
          cashflow(expenses_part000(annualCosts(
            principalPart(mortgagePayment(loanTerms(NoLocals, salePrice, a))),
            salePrice, a))),
          salePrice, a, Dec(3, 100))),
    NaN)

----------------------------------------------------------------------------
(* state *)

VARIABLES
  program,        \* which program of the repository is running
  pc,             \* position: "idle" / "adjusting" in the class,
                  \* "body" / "while" / "returned" in realEstateAnalyzer
  this,           \* the fields of the RealEstateDealAnalyser instance
  call,           \* arguments, starting price and outcome of the last
                  \* adjustToNeededPurchasePrice call
  ret,            \* what the last evaluation method returned
  everThrew,      \* whether an adjustToNeededPurchasePrice call has thrown
  args,           \* the parameters of realEstateAnalyzer
  purchasePrice,  \* the local purchasePrice of realEstateAnalyzer
  result          \* the local result of realEstateAnalyzer

vars == <<program, pc, this, call, ret, everThrew, args, purchasePrice, result>>

classVars == <<this, call, ret, everThrew>>

fnVars == <<args, purchasePrice, result>>

\* magnitude from which on "x - 1000" rounds back to x (2^63 for a double,
\* scaled down to the model's prices)
AbsorbAt == 3000

\* x - 1000 in floating point
Minus1000(x) == IF ~Lt(Neg(Num(AbsorbAt)), x) THEN x ELSE Sub(x, Num(1000))

\* x <= y
Leq(x, y) == ~IsNaN(x) /\ ~IsNaN(y) /\ ~Lt(y, x)

----------------------------------------------------------------------------
(* inputs *)

SalePrices == {2000, 2500}

DownpaymentPercentages == {10, 20, 100}

\* annual rates in percent; 1200 % makes the monthly rate 1, which keeps the
\* powers (1 + r)^n within the integers of the model checker
InterestRates == {0, 1200}

VacancyWeeks == {2}

MonthlyRents == {100, 1000}

\* RealestateAnalysisInput
DealInputs ==
  { [salePrice |-> Num(s),
     downpaymentPercentage |-> Num(d),
     annualMortgageInterestRate |-> Num(r),
     mortgageAmortization |-> Num(1),
     monthlyHoaDues |-> Num(10),
     expectedVacancyWeeks |-> Num(w),
     monthlyRent |-> Num(m)] :
    s \in SalePrices, d \in DownpaymentPercentages, r \in InterestRates,
    w \in VacancyWeeks, m \in MonthlyRents }

\* the thresholds adjustToNeededPurchasePrice is called with; 13 and 0 are the
\* defaults
MinimumROIs == {Num(13), Num(5)}

MinimumCashflows == {Num(0), Num(100000)}

\* the parameters of realEstateAnalyzer, the last two at their defaults;
\* downpaymentPercentage is a fraction here
FnInputs ==
  { [salePrice |-> i.salePrice,
     downpaymentPercentage |-> Div(i.downpaymentPercentage, Num(100)),
     mortgageInterestRate |-> i.annualMortgageInterestRate,
     mortgageAmortization |-> i.mortgageAmortization,
     monthlyHoaDues |-> i.monthlyHoaDues,
     expectedVacancyWeeks |-> i.expectedVacancyWeeks,
     monthlyRent |-> i.monthlyRent,
     monthlyPropertyTax |-> Div(Mul(i.salePrice, Dec(15, 1000)), Num(12)),
     monthlyPropertyInsurance |-> Div(Num(1750), Num(12))] :
    i \in DealInputs }

\* new RealEstateDealAnalyser(input)
Construct(input) ==
  [salePrice |-> input.salePrice,
   downpaymentPercentage |-> input.downpaymentPercentage,
   annualMortgageInterestRate |-> Div(input.annualMortgageInterestRate, Num(100)),
   mortgageAmortization |-> input.mortgageAmortization,
   monthlyHoaDues |-> input.monthlyHoaDues,
   expectedVacancyWeeks |-> input.expectedVacancyWeeks,
   monthlyRent |-> input.monthlyRent,
   purchasePrice |-> input.salePrice]

\* placeholders for the variables of a program that is not running
NoObject == [salePrice |-> NaN]

NoCall == [minimumROI |-> NaN, minimumCashflow |-> NaN, startPrice |-> NaN,
           outcome |-> "none"]

NoRet == [op |-> "none", value |-> NaN, markdown |-> [none |-> NaN]]

NoArgs == [salePrice |-> NaN]

NoResult == [ROI |-> NaN]

InitClass ==
  /\ program = "RealEstateDealAnalyser"
  /\ pc = "idle"
  /\ \E input \in DealInputs : this = Construct(input)
  /\ call = NoCall
  /\ ret = NoRet
  /\ everThrew = FALSE
  /\ args = NoArgs
  /\ purchasePrice = NaN
  /\ result = NoResult

InitFn ==
  /\ program \in {"realEstateAnalyzer", "realEstateAnalyzer_part000"}
  /\ pc = "body"
  /\ \E a \in FnInputs : args = a
  /\ purchasePrice = args.salePrice
  /\ result = NoResult
  /\ this = NoObject
  /\ call = NoCall
  /\ ret = NoRet
  /\ everThrew = FALSE

Init == InitClass \/ InitFn

----------------------------------------------------------------------------
(* class RealEstateDealAnalyser: the methods *)

Idle == program = "RealEstateDealAnalyser" /\ pc = "idle"

\* return { value: markdown[valueEntry], markdown }
Returns(op, markdown, valueEntry) ==
  /\ ret' = [op |-> op, value |-> markdown[valueEntry], markdown |-> markdown]
  /\ UNCHANGED <<program, pc, this, call, everThrew, fnVars>>

GetAnnualExpenses ==
  Idle /\ Returns("getAnnualExpenses", getAnnualExpenses(this), "totalAnnualExpenses")

GetAnnualCashflow ==
  Idle /\ Returns("getAnnualCashflow", getAnnualCashflow(this), "totalAnnualCashflow")

GetAnnualReturn ==
  Idle /\ Returns("getAnnualReturn", getAnnualReturn(this), "totalAnnualReturn")

GetAnnualROI ==
  Idle /\ Returns("getAnnualROI", getAnnualROI(this), "totalAnnualROI")

\* the text is the heading, with the purchase price and its distance from the
\* sale price, followed by the markdown of the four methods
GetFullResultsMarkdown ==
  /\ Idle
  /\ Returns("getFullResultsMarkdown",
             [purchasePrice |-> this.purchasePrice,
              fromSalesPrice |-> Sub(this.salePrice, this.purchasePrice),
              annualExpenses |-> getAnnualExpenses(this),
              annualCashflow |-> getAnnualCashflow(this),
              annualReturn |-> getAnnualReturn(this),
              annualROI |-> getAnnualROI(this)],
             "purchasePrice")

\* the condition of the while loop with && written for ||
criteriaFail_bothBelow(self, minROI, minCashflow) ==
  /\ Lt(getAnnualROI(self).totalAnnualROI, minROI)
  /\ Lt(getAnnualCashflow(self).totalAnnualCashflow, minCashflow)

\* the condition of the while loop
criteriaFail(self, minimumROI, minimumCashflow) ==
  \/ Lt(getAnnualROI(self).totalAnnualROI, minimumROI)
  \/ Lt(getAnnualCashflow(self).totalAnnualCashflow, minimumCashflow)

\* the decrement applied to salePrice as well
loopBody_alsoSalePrice(self) ==
  [self EXCEPT !.purchasePrice = Minus1000(@), !.salePrice = Minus1000(@)]

\* this.purchasePrice -= 1000
loopBody(self) == [self EXCEPT !.purchasePrice = Minus1000(@)]

\* this.purchasePrice <= 0
unrealistic(self) == Leq(self.purchasePrice, Num(0))

\* entry of adjustToNeededPurchasePrice(minimumROI, minimumCashflow); the method
\* returns nothing, so ret, the value of the last call that returned one, is reset
AdjustToNeededPurchasePrice ==
  /\ Idle
  /\ \E minimumROI \in MinimumROIs, minimumCashflow \in MinimumCashflows :
       call' = [minimumROI |-> minimumROI, minimumCashflow |-> minimumCashflow,
                startPrice |-> this.purchasePrice, outcome |-> "running"]
  /\ pc' = "adjusting"
  /\ ret' = NoRet
  /\ UNCHANGED <<program, this, everThrew, fnVars>>

\* one test of the while condition, with the iteration or the return it leads to
AdjustLoop ==
  /\ program = "RealEstateDealAnalyser"
  /\ pc = "adjusting"
  /\ IF criteriaFail(this, call.minimumROI, call.minimumCashflow)
     THEN /\ this' = loopBody(this)
          /\ IF unrealistic(this')
             THEN /\ pc' = "idle"
                  /\ call' = [call EXCEPT !.outcome = "threw"]
                  /\ everThrew' = TRUE
             ELSE UNCHANGED <<pc, call, everThrew>>
     ELSE /\ pc' = "idle"
          /\ call' = [call EXCEPT !.outcome = "returned"]
          /\ UNCHANGED <<this, everThrew>>
  /\ UNCHANGED <<program, ret, fnVars>>

----------------------------------------------------------------------------
(* realEstateAnalyzer: the do-while loops *)

minimumROI == Num(13)

minimumCashflow == Num(0)

\* result.ROI < minimumROI || result.annualCashflow < minimumCashflow
belowCriteria(r) == Lt(r.ROI, minimumROI) \/ Lt(r.annualCashflow, minimumCashflow)

\* a number used as a condition: 0 and NaN are false
truthy(x) == ~IsNaN(x) /\ x.n # 0

\* src/realEstateDealAnalyser.ts: the body of the do-while
Body ==
  /\ program = "realEstateAnalyzer"
  /\ pc = "body"
  /\ result' = calculateAnalysis(purchasePrice, args)
  /\ pc' = "while"
  /\ UNCHANGED <<program, args, purchasePrice, classVars>>

\* src/realEstateDealAnalyser.ts: the condition of the do-while, whose
\* second operand decrements purchasePrice and is its new value
While ==
  /\ program = "realEstateAnalyzer"
  /\ pc = "while"
  /\ IF belowCriteria(result)
     THEN /\ purchasePrice' = Minus1000(purchasePrice)
          /\ pc' = IF truthy(purchasePrice') THEN "body" ELSE "returned"
     ELSE /\ pc' = "returned"
          /\ UNCHANGED purchasePrice
  /\ UNCHANGED <<program, args, result, classVars>>

\* src/unnamed/part_000: the body of the do-while
Body_part000 ==
  /\ program = "realEstateAnalyzer_part000"
  /\ pc = "body"
  /\ result' = calculateAnalysis_part000(purchasePrice, args)
  /\ purchasePrice' = IF belowCriteria(result')
                      THEN Minus1000(purchasePrice)
                      ELSE purchasePrice
  /\ pc' = "while"
  /\ UNCHANGED <<program, args, classVars>>

\* src/unnamed/part_000: the condition of the do-while and, once it is
\* false, the return
While_part000 ==
  /\ program = "realEstateAnalyzer_part000"
  /\ pc = "while"
  /\ IF belowCriteria(result)
     THEN /\ pc' = "body"
          /\ UNCHANGED result
     ELSE /\ result' = [result EXCEPT !.purchasePrice = purchasePrice]
          /\ pc' = "returned"
  /\ UNCHANGED <<program, args, purchasePrice, classVars>>

----------------------------------------------------------------------------

Next ==
  \/ GetAnnualExpenses
  \/ GetAnnualCashflow
  \/ GetAnnualReturn
  \/ GetAnnualROI
  \/ GetFullResultsMarkdown
  \/ AdjustToNeededPurchasePrice
  \/ AdjustLoop
  \/ Body
  \/ While
  \/ Body_part000
  \/ While_part000

Spec == Init /\ [][Next]_vars

\* The control flow of the steps of the loops: a step of realEstateAnalyzer
\* from one place to the next, and a test of the while condition of
\* adjustToNeededPurchasePrice, which lowers the price or ends the call.  Each
\* is possible exactly where the step itself is, and the steps that move pc, or
\* pc and this, in this way are the steps themselves.
stepFrom(p, from, to) == program = p /\ pc = from /\ pc' \in to

adjustStep ==
  /\ program = "RealEstateDealAnalyser"
  /\ pc = "adjusting"
  /\ pc' \in {"adjusting", "idle"}
  /\ this' \in {this, loopBody(this)}

\* a call that has started runs on: the program is single-threaded and
\* nothing suspends a loop
FairSpec ==
  /\ Spec
  /\ WF_<<pc, this>>(adjustStep)
  /\ WF_pc(stepFrom("realEstateAnalyzer", "body", {"while"}))
  /\ WF_pc(stepFrom("realEstateAnalyzer", "while", {"body", "returned"}))
  /\ WF_pc(stepFrom("realEstateAnalyzer_part000", "body", {"while"}))
  /\ WF_pc(stepFrom("realEstateAnalyzer_part000", "while", {"body", "returned"}))

----------------------------------------------------------------------------
(* The claims.  The metrics of the object are re-evaluated at other prices   *)
(* by the operators below.                                                    *)

InClass == program = "RealEstateDealAnalyser"

InFunction == program \in {"realEstateAnalyzer", "realEstateAnalyzer_part000"}

atPrice(p) == [this EXCEPT !.purchasePrice = p]

roiAt(p) == getAnnualROI(atPrice(p)).totalAnnualROI

cashflowAt(p) == getAnnualCashflow(atPrice(p)).totalAnnualCashflow

\* the loop test of the running or last call, at price p
testFailsAt(p) ==
  \/ Lt(roiAt(p), call.minimumROI)
  \/ Lt(cashflowAt(p), call.minimumCashflow)

\* both thresholds of the running or last call are met at price p
meetsAt(p) ==
  /\ Geq(roiAt(p), call.minimumROI)
  /\ Geq(cashflowAt(p), call.minimumCashflow)

\* the numbers of decrements a call can make
Decrements == 0..((2500 + AbsorbAt) \div 1000 + 2)

\* C1 (as amended): when adjustToNeededPurchasePrice returns normally, the
\* price P* it leaves is the price of the call's start lowered by a whole
\* number k of 1000 steps; at P* neither comparison of the loop test holds
\* (ROI < minimumROI, cashflow < minimumCashflow), and at each of the k prices
\* tried before it one of them held.  Nothing is said of P* + 1.
C1_ReturnsFirstPassingPriceOnGrid ==
  (InClass /\ call.outcome = "returned") =>
    /\ ~testFailsAt(this.purchasePrice)
    /\ \E k \in Decrements :
         /\ this.purchasePrice = Sub(call.startPrice, Num(1000 * k))
         /\ \A j \in 0..(k - 1) : testFailsAt(Sub(call.startPrice, Num(1000 * j)))

\* C1 witness: a call has returned after lowering the price, with a finite ROI
C1_Witness ==
  /\ InClass
  /\ call.outcome = "returned"
  /\ Lt(this.purchasePrice, call.startPrice)
  /\ IsFinite(roiAt(this.purchasePrice))

\* C1 as stated: the price a normal return leaves meets both thresholds and
\* the price one unit above it does not
C1_MaxAtGranularityOne ==
  (InClass /\ call.outcome = "returned") =>
    /\ meetsAt(this.purchasePrice)
    /\ ~meetsAt(Add(this.purchasePrice, Num(1)))

\* C2 as stated: every price search that has started comes to an end, be it
\* the method of the class or either realEstateAnalyzer
C2_EverySearchTerminates ==
  (pc \in {"adjusting", "body", "while"}) ~> (pc \in {"idle", "returned"})

\* the six named components, at a candidate price
sixComponents(annualMortgagePayment, monthlyHoaDues, price, monthlyRent, expectedVacancyWeeks) ==
  Add(Add(Add(Add(Add(annualMortgagePayment,
                      Mul(monthlyHoaDues, Num(12))),
                  Mul(price, Dec(1, 100))),
              Mul(price, Dec(15, 1000))),
          Num(1750)),
      Mul(Div(monthlyRent, Num(4)), expectedVacancyWeeks))

\* the six components from the arguments of realEstateAnalyzer, around the
\* mortgage payment of the result
sixComponentsOfResult(price) ==
  sixComponents(Mul(result.monthlyMortgagePayment, Num(12)), args.monthlyHoaDues,
                price, args.monthlyRent, args.expectedVacancyWeeks)

\* C3 as stated: the total annual expenses of every evaluation are the sum of
\* the six named components at the candidate price: in getAnnualExpenses, and
\* in the result of calculateAnalysis of either version (whose candidate price
\* is the current one or, when the loop has just lowered it, the one before)
C3_ExpensesAreTheSixComponents ==
  /\ (InClass /\ ret.op = "getAnnualExpenses") =>
       ret.value = sixComponents(ret.markdown.annualMortgagePayment,
                                 this.monthlyHoaDues, this.purchasePrice,
                                 this.monthlyRent, this.expectedVacancyWeeks)
  /\ (InFunction /\ result # NoResult) =>
       \/ result.annualExpenses = sixComponentsOfResult(purchasePrice)
       \/ result.annualExpenses = sixComponentsOfResult(Add(purchasePrice, Num(1000)))

\* C4 as stated: for a fixed deal, the annual cashflow at the higher of two
\* purchase prices is strictly less than at the lower; the cashflow that
\* getAnnualCashflow returned is compared with the cashflow at other prices
C4_CashflowStrictlyDecreasing ==
  (InClass /\ ret.op = "getAnnualCashflow") =>
    \A p \in {Num(500), Num(1500), Num(3500)} :
      /\ Lt(this.purchasePrice, p) => Lt(cashflowAt(p), ret.value)
      /\ Lt(p, this.purchasePrice) => Lt(ret.value, cashflowAt(p))

\* C5 as stated: at an interest rate of 0 the mortgage payment is
\* loanAmount / (mortgageAmortization * 12), and the expenses, the cashflow and
\* the ROI that the methods return are finite numbers
C5_ZeroRatePaymentIsLoanOverN ==
  (InClass /\ this.annualMortgageInterestRate = Num(0)) =>
    /\ ret.op = "getAnnualExpenses" =>
         /\ ret.markdown.annualMortgagePayment =
              Mul(Div(getLoanAmount(this), Mul(this.mortgageAmortization, Num(12))),
                  Num(12))
         /\ IsFinite(ret.value)
    /\ ret.op \in {"getAnnualCashflow", "getAnnualReturn", "getAnnualROI"} =>
         IsFinite(ret.value)

\* C6 (as amended): the mortgage payment in the expenses is the amortization
\* payment alone, for every down payment, below 20 % as well: with the monthly
\* rate r and n months, payment * (1 - (1 + r)^(-n)) = loanAmount * r; at r = 0
\* the payment is 0 / 0, not a number
C6_PaymentIsAmortizationOnly ==
  (InClass /\ ret.op = "getAnnualExpenses") =>
    LET r == Div(this.annualMortgageInterestRate, Num(12))
        n == Mul(this.mortgageAmortization, Num(12))
        payment == Div(ret.markdown.annualMortgagePayment, Num(12))
    IN  IF r = Num(0)
        THEN IsNaN(payment)
        ELSE Mul(payment, Sub(Num(1), Pow(Add(Num(1), r), Neg(n)))) =
               Mul(getLoanAmount(this), r)

\* C6 witness: the expenses were evaluated for a down payment below 20 % at a
\* rate above 0
C6_Witness ==
  /\ InClass
  /\ ret.op = "getAnnualExpenses"
  /\ Lt(this.downpaymentPercentage, Num(20))
  /\ IsFinite(ret.markdown.annualMortgagePayment)
  /\ Lt(Num(0), ret.markdown.annualMortgagePayment)

\* the surcharge of the claim
PMI(self) ==
  IF Lt(self.downpaymentPercentage, Num(20))
  THEN Div(Mul(self.purchasePrice, Dec(15, 1000)), Num(12))
  ELSE Num(0)

\* C6 as stated: the monthly mortgage payment is the surcharge, due below a
\* down payment of 20 %, plus the amortization payment
C6_PaymentIncludesPMI ==
  (InClass /\ ret.op = "getAnnualExpenses") =>
    ret.markdown.annualMortgagePayment =
      Mul(Add(PMI(this),
              amortizedPayment(getLoanAmount(this),
                               Div(this.annualMortgageInterestRate, Num(12)),
                               Mul(this.mortgageAmortization, Num(12)))),
          Num(12))

\* the deal-input fields of the object
InputFields ==
  {"salePrice", "downpaymentPercentage", "annualMortgageInterestRate",
   "mortgageAmortization", "monthlyHoaDues", "expectedVacancyWeeks", "monthlyRent"}

\* C7: no step of the object changes one of its seven deal-input fields, the
\* purchase price changes only in a step of adjustToNeededPurchasePrice, and
\* a step in which one of the five other methods returns changes no field
C7_InputFieldsNeverChange ==
  [][InClass =>
       /\ \A f \in InputFields : this'[f] = this[f]
       /\ this'.purchasePrice # this.purchasePrice => pc = "adjusting"
       /\ pc = "idle" /\ pc' = "idle" => this' = this]_vars

\* C7 witness: the full results were produced after a call had lowered the price
C7_Witness ==
  /\ InClass
  /\ ret.op = "getFullResultsMarkdown"
  /\ Lt(this.purchasePrice, this.salePrice)

RECURSIVE amortization(_, _, _, _)
\* the balance and the principal paid off after a number of monthly payments:
\* interest = balance * r, principal = payment - interest
amortization(months, st, payment, r) ==
  IF months = 0 THEN st
  ELSE LET before == amortization(months - 1, st, payment, r)
       IN  payPrincipal(before, Sub(payment, Mul(before.remainingLoanBalance, r)))

\* the principal paid off by 12 monthly payments on a loan
twelveMonths(loanAmount, payment, r) ==
  amortization(12, [annualPrincipalReduction |-> Num(0),
                    remainingLoanBalance |-> loanAmount],
               payment, r).annualPrincipalReduction

\* C8 as stated: the principal reduction in a total annual return is that of
\* 12 monthly amortization steps from the loan amount, at the payment and the
\* monthly rate of the expenses: in getAnnualReturn, and in the result of
\* calculateAnalysis of either version
C8_PrincipalReductionIsTwelveMonths ==
  /\ (InClass /\ ret.op = "getAnnualReturn") =>
       ret.value =
         Add(Add(ret.markdown.annualCashflow,
                 twelveMonths(getLoanAmount(this),
                              Div(getAnnualExpenses(this).annualMortgagePayment, Num(12)),
                              Div(this.annualMortgageInterestRate, Num(12)))),
             ret.markdown.annualAppreciation)
  /\ (InFunction /\ result # NoResult) =>
       result.totalReturn =
         Add(Add(result.annualCashflow,
                 twelveMonths(result.loanAmount, result.monthlyMortgagePayment,
                              Div(Div(args.mortgageInterestRate, Num(12)), Num(100)))),
             result.appreciation)

\* C9 as stated: the result realEstateAnalyzer returns has an ROI of at least
\* 13 and a cashflow of at least 0, and is the analysis at its purchasePrice
C9_ReturnedResultMeetsCriteria ==
  (InFunction /\ pc = "returned") =>
    /\ Geq(result.ROI, Num(13))
    /\ Geq(result.annualCashflow, Num(0))
    /\ result.loanAmount =
         Mul(result.purchasePrice, Sub(Num(1), args.downpaymentPercentage))
    /\ result.annualCapEx = Mul(result.purchasePrice, Dec(1, 100))

\* C10 as stated: the purchase price of the object is the sale price lowered by
\* a whole number of 1000 steps and is above -1000; it is above 0 when the
\* last call of adjustToNeededPurchasePrice returned normally, and 0 or less
\* only after a call that threw
C10_PurchasePriceInvariant ==
  InClass =>
    /\ \E k \in Decrements :
         this.purchasePrice = Sub(this.salePrice, Num(1000 * k))
    /\ Lt(Num(-1000), this.purchasePrice)
    /\ call.outcome = "returned" => Lt(Num(0), this.purchasePrice)
    /\ Leq(this.purchasePrice, Num(0)) => everThrew

====
